---- MODULE Spec2Model ----
(***************************************************************************)
(* Model of the ESP32 rain-responsive clothesline firmware                 *)
(* (IoT-Based-Automated-Rain-Responsive-Clothesline.ino).                  *)
(*                                                                         *)
(* The firmware is one sequential program: setup() runs once after power   *)
(* on, then loop() runs for ever.  A cycle of loop() is modelled as the    *)
(* steps sample, evaluate, policy, retry, serial, delay, one action each.  *)
(* Sensors, the WiFi link, the HTTPS server and the serial line are the    *)
(* environment: what they return is an input chosen in the action that     *)
(* reads them.                                                             *)
(***************************************************************************)
EXTENDS Integers, Naturals, Sequences, FiniteSets, TLC

(***************************************************************************)
(* Bounds of the model.                                                    *)
(***************************************************************************)
\* Number of loop() cycles explored after power on.
MaxCycles == 5

(***************************************************************************)
(* Program constants.                                                      *)
(***************************************************************************)
EEPROM_SCRIPT_ID_ADDR == 0
MAX_SCRIPT_ID_LENGTH == 100
rainThreshold == 2000
outsidePosition == 180
coveredPosition == 0
dataSendInterval == 30000
resendTimeout == 15000
\* delay(5000) at the end of loop()
LoopDelayMs == 5000
\* delay(100) after every servo write of a sweep
SweepStepDelayMs == 100
\* pos -= 5 / pos += 5 in the sweeps
SweepStepDeg == 5
\* millis() - timeout < 10000 in the response wait
ResponseTimeoutMs == 10000
\* delay(10) in the response wait
ResponsePollMs == 10

(***************************************************************************)
(* unsigned long is 32 bits wide on the ESP32.  A value is kept as its two *)
(* 16-bit halves, so that sums and differences wrap at 2^32 exactly as the *)
(* hardware's do.                                                          *)
(***************************************************************************)
Half == 65536

\* The unsigned long with value n (0 <= n < 2^31).
U32(n) == [hi |-> n \div Half, lo |-> n % Half]

\* a + d modulo 2^32, for an unsigned long a and a number of milliseconds d.
U32Add(a, d) ==
    LET s == a.lo + (d % Half)
    IN  [hi |-> (a.hi + (d \div Half) + (s \div Half)) % Half, lo |-> s % Half]

\* a - b modulo 2^32, both unsigned long.
U32Sub(a, b) ==
    LET l == a.lo - b.lo
        borrow == IF l < 0 THEN 1 ELSE 0
    IN  [hi |-> (a.hi - b.hi - borrow) % Half, lo |-> l % Half]

\* x >= n and x > n for an unsigned long x and a constant n (0 <= n < 2^31).
U32Ge(x, n) == x.hi > n \div Half \/ (x.hi = n \div Half /\ x.lo >= n % Half)
U32Gt(x, n) == x.hi > n \div Half \/ (x.hi = n \div Half /\ x.lo > n % Half)

\* a <= b as unsigned long values.
U32Le(a, b) == a.hi < b.hi \/ (a.hi = b.hi /\ a.lo <= b.lo)

(***************************************************************************)
(* Text.  A String is a sequence of character codes (bytes).               *)
(***************************************************************************)
\* "success"
SuccessMarker == <<115, 117, 99, 99, 101, 115, 115>>
\* "SET_SCRIPT_ID:"
SetScriptIdPrefix == <<83, 69, 84, 95, 83, 67, 82, 73, 80, 84, 95, 73, 68, 58>>

\* String::indexOf(needle): the first 0-based index at which needle occurs
\* in s, or -1.
IndexOf(s, needle) ==
    LET hits == {i \in 1..(Len(s) - Len(needle) + 1) :
                    SubSeq(s, i, i + Len(needle) - 1) = needle}
    IN  IF hits = {} THEN -1
        ELSE (CHOOSE i \in hits : \A j \in hits : i <= j) - 1

\* String::startsWith(prefix)
StartsWith(s, prefix) ==
    /\ Len(s) >= Len(prefix)
    /\ SubSeq(s, 1, Len(prefix)) = prefix

\* String::substring(from): the characters from 0-based index from on.
Substring(s, from) == IF from >= Len(s) THEN <<>> ELSE SubSeq(s, from + 1, Len(s))

\* isspace(): space, \t, \n, \v, \f, \r
IsSpace(c) == c = 32 \/ (c >= 9 /\ c <= 13)

\* String::trim(): leading and trailing whitespace removed.
RECURSIVE TrimLeft(_)
TrimLeft(s) == IF s # <<>> /\ IsSpace(Head(s)) THEN TrimLeft(Tail(s)) ELSE s
RECURSIVE TrimRight(_)
TrimRight(s) ==
    IF s # <<>> /\ IsSpace(s[Len(s)]) THEN TrimRight(SubSeq(s, 1, Len(s) - 1)) ELSE s
Trim(s) == TrimRight(TrimLeft(s))

(***************************************************************************)
(* Inputs of the environment.                                              *)
(***************************************************************************)
\* analogRead(rainSensorPin): 12-bit readings on both sides of the threshold
MoistureReadings == {1999, 2000}
\* "not a number", the result of a failed DHT11 read: a value no reading has
NaN == 0 - 999999
\* dht.readTemperature() and dht.readHumidity()
TemperatureReadings == {NaN, 31}
HumidityReadings == {NaN, 64}
\* iterations of the wait loop of connectToWiFi (at 20 it gives up)
BootWiFiAttempts == {2}
\* iterations of the wait loop of reconnectWiFi (at 10 it gives up)
ReconnectAttempts == {8}
\* milliseconds client.connect() takes (TCP and TLS handshake)
ConnectDurations == {5000}

\* lines of an HTTP response
LineStatus == <<72, 84, 84, 80, 47, 49, 46, 49, 32, 50, 48, 48>>  \* "HTTP/1.1 200"
LineSuccess == <<123, 34, 114, 34, 58, 34>> \o SuccessMarker \o <<34, 125>> \* {"r":"success"}
LineUpper == <<83>> \o Tail(SuccessMarker)                        \* "Success"

\* What the server does after the request: the lines it sends, each with
\* the time the client polls before the line is available, and whether it
\* closes the connection after the last line.
Responses ==
    { [lines |-> <<>>, closes |-> TRUE],
      [lines |-> <<[gap |-> 490, text |-> LineStatus],
                   [gap |-> 490, text |-> LineSuccess]>>, closes |-> TRUE],
      [lines |-> <<[gap |-> 5000, text |-> LineSuccess]>>, closes |-> FALSE],
      [lines |-> <<[gap |-> 990, text |-> LineUpper]>>, closes |-> FALSE],
      [lines |-> <<[gap |-> 10000, text |-> LineSuccess]>>, closes |-> TRUE] }

\* What a call of sendDataToGoogleSheets meets.
SendEnvs ==
    { [wifi |-> FALSE, stillDown |-> TRUE, reconnects |-> r, connectOk |-> FALSE,
       connectMs |-> 0, response |-> [lines |-> <<>>, closes |-> TRUE]] :
         r \in ReconnectAttempts }
    \cup
    { [wifi |-> TRUE, stillDown |-> FALSE, reconnects |-> 0, connectOk |-> FALSE,
       connectMs |-> c, response |-> [lines |-> <<>>, closes |-> TRUE]] :
         c \in ConnectDurations }
    \cup
    { [wifi |-> TRUE, stillDown |-> FALSE, reconnects |-> 0, connectOk |-> TRUE,
       connectMs |-> c, response |-> r] :
         c \in ConnectDurations, r \in Responses }

\* Serial input pending at checkForNewScriptID: <<>> stands for
\* Serial.available() = 0, otherwise the line up to the newline.
IdShort == <<97, 98, 99, 49, 50, 51>>                              \* "abc123"
SerialInputs ==
    { <<>>,
      SetScriptIdPrefix \o IdShort,
      SetScriptIdPrefix \o <<32>> \o IdShort \o <<13>>,
      SetScriptIdPrefix \o <<32, 13>>,
      <<104, 105>> }

\* A script id of MAX_SCRIPT_ID_LENGTH characters ("AAA...A").
IdLong == [i \in 1..MAX_SCRIPT_ID_LENGTH |-> 65]

\* Serial lines that set a short and a long script id.
IdSerialInputs ==
    { <<>>, SetScriptIdPrefix \o IdShort, SetScriptIdPrefix \o IdLong }

\* Sends that fail without WiFi, are refused, or succeed at once.
IdSendEnvs ==
    { e \in SendEnvs : e.connectOk => (e.response.closes /\ Len(e.response.lines) = 2) }

(***************************************************************************)
(* State.                                                                  *)
(***************************************************************************)
VARIABLES
    pc,                 \* where the program is: "boot", "halted", or a step of loop()
    clock,              \* millis()
    rainValue, isRaining, clothesProtected, temperature, humidity,
    lastDataSend, lastSuccessfulSend, forceDataSend,
    GOOGLE_SCRIPT_ID,
    eeprom,             \* the bytes EEPROM_SCRIPT_ID_ADDR .. + MAX_SCRIPT_ID_LENGTH - 1
    servo,              \* the last position written to clothesServo
    display,            \* what the last updateDisplay drew
    currentMillis,      \* the local of loop()
    \* bookkeeping of the run, not program state
    cycle,              \* loop() cycles started
    attempts,           \* calls of sendDataToGoogleSheets in this cycle (or in setup)
    lastSend,           \* the last call of sendDataToGoogleSheets in this cycle
    lastOutcome,        \* "ok" or "failed": how the most recent call ended ("none": no call yet)
    sweeps,             \* completed actuation sweeps in this cycle
    lastSweep,          \* the servo position the last completed sweep ended at, or -1
    refreshes,          \* calls of updateDisplay in this cycle
    dhtRead,            \* what the DHT11 returned to the readDHTSensor of this cycle
    idAtPowerOff        \* GOOGLE_SCRIPT_ID when power was last cycled

vars == <<pc, clock, rainValue, isRaining, clothesProtected, temperature, humidity,
          lastDataSend, lastSuccessfulSend, forceDataSend, GOOGLE_SCRIPT_ID, eeprom,
          servo, display, currentMillis,
          cycle, attempts, lastSend, lastOutcome, sweeps, lastSweep, refreshes,
          dhtRead, idAtPowerOff>>

EepromCells == 0..(MAX_SCRIPT_ID_LENGTH - 1)
\* erased flash reads 0xFF
ErasedEeprom == [i \in EepromCells |-> 255]

NoDisplay == [line1 |-> "", line2 |-> "", rain |-> FALSE, sensor |-> 0, t |-> 0, h |-> 0]
\* no DHT11 read made (yet) in this cycle
NoRead == [t |-> 0, h |-> 0, made |-> FALSE]
NoSend == [kind |-> "none", forced |-> FALSE, outcome |-> "none", contacted |-> FALSE,
           record |-> <<>>]

(***************************************************************************)
(* Persistent storage of the script id.                                    *)
(***************************************************************************)
\* The String built from scriptIdBuffer: the bytes before the first 0, the
\* last cell of the buffer being forced to 0.
RECURSIVE BufferString(_, _)
BufferString(mem, i) ==
    IF i >= MAX_SCRIPT_ID_LENGTH - 1 \/ mem[EEPROM_SCRIPT_ID_ADDR + i] = 0 THEN <<>>
    ELSE <<mem[EEPROM_SCRIPT_ID_ADDR + i]>> \o BufferString(mem, i + 1)

\* loadScriptIDFromEEPROM: the value of GOOGLE_SCRIPT_ID after the call.
loadScriptIDFromEEPROM(mem, id) ==
    IF mem[EEPROM_SCRIPT_ID_ADDR] # 0 /\ mem[EEPROM_SCRIPT_ID_ADDR] # 255
    THEN BufferString(mem, 0)
    ELSE id

\* saveScriptIDToEEPROM: the EEPROM after the call (GOOGLE_SCRIPT_ID becomes
\* scriptId itself).
saveScriptIDToEEPROM(scriptId) ==
    [i \in EepromCells |->
        IF i < Len(scriptId) /\ i < MAX_SCRIPT_ID_LENGTH - 1 THEN scriptId[i + 1] ELSE 0]

\* checkForNewScriptID: the script id to save for a pending serial line, or
\* <<>> when nothing is to be saved.
NewScriptId(input) ==
    IF input # <<>> /\ StartsWith(input, SetScriptIdPrefix)
    THEN Trim(Substring(input, 14))
    ELSE <<>>

(***************************************************************************)
(* Cover actuator.                                                         *)
(***************************************************************************)
\* Faulty variant: the loop stops before the covered position (pos > ...).
RECURSIVE SweepToCoveredShort(_, _)
SweepToCoveredShort(pos, acc) ==
    IF pos > coveredPosition
    THEN SweepToCoveredShort(pos - SweepStepDeg, [last |-> pos, writes |-> acc.writes + 1])
    ELSE acc

\* The for loop of moveClothesToCoveredArea from position pos on; acc is
\* the last position written and the number of writes so far.
RECURSIVE SweepToCovered(_, _)
SweepToCovered(pos, acc) ==
    IF pos >= coveredPosition
    THEN SweepToCovered(pos - SweepStepDeg, [last |-> pos, writes |-> acc.writes + 1])
    ELSE acc

\* The for loop of moveClothesToOutside.
RECURSIVE SweepToOutside(_, _)
SweepToOutside(pos, acc) ==
    IF pos <= outsidePosition
    THEN SweepToOutside(pos + SweepStepDeg, [last |-> pos, writes |-> acc.writes + 1])
    ELSE acc

moveClothesToCoveredArea(at) == SweepToCovered(outsidePosition, [last |-> at, writes |-> 0])
moveClothesToOutside(at) == SweepToOutside(coveredPosition, [last |-> at, writes |-> 0])

(***************************************************************************)
(* Sensors and display.                                                    *)
(***************************************************************************)
\* Faulty variant: the threshold itself counts as rain.
RainDetectedInclusive(m) == m <= rainThreshold

\* rainValue < rainThreshold
RainDetected(m) == m < rainThreshold

\* Faulty variant: the check of clothesProtected is missing.
MoveToCoverAlways(m, protected) == m < rainThreshold

\* if (rainValue < rainThreshold) { ... if (!clothesProtected) { move to cover
MoveToCoverDue(m, protected) == RainDetected(m) /\ ~protected

\* Faulty variant: a reading equal to the threshold does not bring the
\* clothes back outside.
MoveOutsideDueAbove(m, protected) == m > rainThreshold /\ protected

\* else { ... if (clothesProtected) { move back outside
MoveOutsideDue(m, protected) == ~RainDetected(m) /\ protected

\* Faulty variant: each valid reading is cached on its own.
readDHTSensorEach(temp, hum, newTemperature, newHumidity) ==
    <<IF newTemperature = NaN THEN temp ELSE newTemperature,
      IF newHumidity = NaN THEN hum ELSE newHumidity>>

\* readDHTSensor: the cached <<temperature, humidity>> after a read that
\* returned newTemperature and newHumidity.
readDHTSensor(temp, hum, newTemperature, newHumidity) ==
    IF newHumidity = NaN \/ newTemperature = NaN
    THEN <<temp, hum>>
    ELSE <<newTemperature, newHumidity>>

\* updateDisplay(line1, line2, rainStatus): what is drawn, the readings
\* being the globals at the time of the call.
updateDisplay(line1, line2, rainStatus, rv, temp, hum) ==
    [line1 |-> line1, line2 |-> line2, rain |-> rainStatus,
     sensor |-> rv, t |-> temp, h |-> hum]

(***************************************************************************)
(* Telemetry send.                                                         *)
(***************************************************************************)
\* line.indexOf("success") >= 0
HasSuccessMarker(line) == IndexOf(line, SuccessMarker) >= 0

\* Faulty variant: the timeout runs from the last line read, not from the
\* start of the wait.
PollAtTimeoutFromLine(elapsed) == elapsed + ResponseTimeoutMs

\* The first poll of the response wait at or after the timeout, for a wait
\* that has lasted elapsed < ResponseTimeoutMs and polls every ResponsePollMs.
PollAtTimeout(elapsed) ==
    elapsed + ((ResponseTimeoutMs - elapsed + ResponsePollMs - 1) \div ResponsePollMs)
                  * ResponsePollMs

\* The while loop waiting for the response.  elapsed is millis() - timeout,
\* stamp the value of millis() - timeout at the last line that held the
\* marker (-1: none).  The result is <<stamp, elapsed at the end of the loop>>.
RECURSIVE ResponseWait(_, _, _, _)
ResponseWait(elapsed, lines, closes, stamp) ==
    IF elapsed >= ResponseTimeoutMs THEN <<stamp, elapsed>>
    ELSE IF lines = <<>>
         THEN IF closes THEN <<stamp, elapsed>>
              ELSE <<stamp, PollAtTimeout(elapsed)>>
         ELSE LET at == elapsed + Head(lines).gap
              IN  IF at >= ResponseTimeoutMs
                  THEN <<stamp, PollAtTimeout(elapsed)>>
                  ELSE ResponseWait(at + ResponsePollMs, Tail(lines), closes,
                                    IF HasSuccessMarker(Head(lines).text)
                                    THEN at ELSE stamp)

\* reconnectWiFi: the milliseconds it takes.
reconnectWiFi(env) == IF env.stillDown THEN 1000 + 500 * env.reconnects ELSE 0

\* Faulty variants: the stamp is set whether or not the marker was read;
\* the stamp is never set.
StampAlways(old, t0, wait) == U32Add(t0, IF wait[1] >= 0 THEN wait[1] ELSE wait[2])
StampNever(old, t0, wait) == old

\* lastSuccessfulSend after the response wait that started at t0.
StampSuccess(old, t0, wait) == IF wait[1] >= 0 THEN U32Add(t0, wait[1]) ELSE old

\* Faulty variant: the two cover status texts are exchanged.
TelemetryRecordSwapped(id, rv, raining, protected, temp, hum) ==
    [script_id |-> id,
     rain_value |-> rv,
     is_raining |-> IF raining THEN "Yes" ELSE "No",
     clothes_status |-> IF protected THEN "Drying" ELSE "In%20Cover",
     temperature |-> temp,
     humidity |-> hum]

\* The query string of the request, as the values of its parameters.
TelemetryRecord(id, rv, raining, protected, temp, hum) ==
    [script_id |-> id,
     rain_value |-> rv,
     is_raining |-> IF raining THEN "Yes" ELSE "No",
     clothes_status |-> IF protected THEN "In%20Cover" ELSE "Drying",
     temperature |-> temp,
     humidity |-> hum]

\* sendDataToGoogleSheets called at time t in environment env: the new
\* lastSuccessfulSend, millis() at return, how the call ended, whether
\* client.connect was called, and the record of the request.
sendDataToGoogleSheets(t, env, id, lss, rv, raining, protected, temp, hum) ==
    IF ~env.wifi
    THEN [lss |-> lss, clock |-> U32Add(t, reconnectWiFi(env)),
          outcome |-> "wifi_down", contacted |-> FALSE, record |-> <<>>]
    ELSE IF Len(id) = 0
    THEN [lss |-> lss, clock |-> t,
          outcome |-> "no_id", contacted |-> FALSE, record |-> <<>>]
    ELSE LET rec == TelemetryRecord(id, rv, raining, protected, temp, hum)
             t0 == U32Add(t, env.connectMs)
         IN  IF ~env.connectOk
             THEN [lss |-> lss, clock |-> t0,
                   outcome |-> "refused", contacted |-> TRUE, record |-> rec]
             ELSE LET wait == ResponseWait(0, env.response.lines,
                                           env.response.closes, -1)
                  IN  [lss |-> StampSuccess(lss, t0, wait),
                       clock |-> U32Add(t0, wait[2]),
                       outcome |-> IF wait[1] >= 0 THEN "success"
                                   ELSE IF wait[2] >= ResponseTimeoutMs THEN "timeout"
                                   ELSE "no_marker",
                       contacted |-> TRUE, record |-> rec]

(***************************************************************************)
(* Send policy of loop().                                                  *)
(***************************************************************************)
\* Faulty variants: the periodic send uses the retry timeout; the force
\* flag is ignored; only the force flag is looked at.
IntervalSendDueEarly(force, cm, lds) == force \/ U32Ge(U32Sub(cm, lds), resendTimeout)
IntervalSendDueUnforced(force, cm, lds) == U32Ge(U32Sub(cm, lds), dataSendInterval)
IntervalSendDueForcedOnly(force, cm, lds) == force

\* Faulty variant: the deadline lastDataSend + dataSendInterval is compared
\* with currentMillis.
IntervalSendDueDeadline(force, cm, lds) == force \/ U32Le(U32Add(lds, dataSendInterval), cm)

\* forceDataSend || (currentMillis - lastDataSend >= dataSendInterval)
IntervalSendDue(force, cm, lds) == force \/ U32Ge(U32Sub(cm, lds), dataSendInterval)

\* Faulty variants: || in place of &&; the time of the last attempt is not
\* looked at.
RetryDueEither(cm, lss, lds) ==
    \/ U32Gt(U32Sub(cm, lss), resendTimeout)
    \/ U32Gt(U32Sub(cm, lds), resendTimeout)
RetryDueUnsuccessful(cm, lss, lds) == U32Gt(U32Sub(cm, lss), resendTimeout)

\* currentMillis - lastSuccessfulSend > resendTimeout &&
\* currentMillis - lastDataSend > resendTimeout
RetryDue(cm, lss, lds) ==
    /\ U32Gt(U32Sub(cm, lss), resendTimeout)
    /\ U32Gt(U32Sub(cm, lds), resendTimeout)

(***************************************************************************)
(* Initial state: the globals as initialised, power just applied.          *)
(***************************************************************************)
Init ==
    /\ pc = "boot"
    /\ clock = U32(0)
    /\ rainValue = 0
    /\ isRaining = FALSE
    /\ clothesProtected = FALSE
    /\ temperature = 0
    /\ humidity = 0
    /\ lastDataSend = U32(0)
    /\ lastSuccessfulSend = U32(0)
    /\ forceDataSend = FALSE
    /\ GOOGLE_SCRIPT_ID = <<>>
    /\ eeprom = ErasedEeprom
    /\ servo = -1
    /\ display = NoDisplay
    /\ currentMillis = U32(0)
    /\ cycle = 0
    /\ attempts = 0
    /\ lastSend = NoSend
    /\ lastOutcome = "none"
    /\ sweeps = 0
    /\ lastSweep = -1
    /\ refreshes = 0
    /\ dhtRead = NoRead
    /\ idAtPowerOff = <<>>

(***************************************************************************)
(* setup()                                                                 *)
(***************************************************************************)
\* displayOk: display.begin succeeded; wifiTries: iterations of the wait
\* loop of connectToWiFi; env: what the initial send meets.
Setup(displayOk, wifiTries, env) ==
    /\ pc = "boot"
    /\ UNCHANGED <<dhtRead, idAtPowerOff>>
    /\ LET id == loadScriptIDFromEEPROM(eeprom, GOOGLE_SCRIPT_ID)
       IN  /\ GOOGLE_SCRIPT_ID' = id
           /\ servo' = outsidePosition
           /\ IF ~displayOk
              THEN \* for(;;);
                   /\ pc' = "halted"
                   /\ UNCHANGED <<clock, display, forceDataSend, lastSuccessfulSend,
                                  attempts, lastSend, lastOutcome>>
              ELSE LET t == U32Add(clock, 500 * wifiTries + 2000 + 2000)
                       r == sendDataToGoogleSheets(t, env, id, lastSuccessfulSend,
                                rainValue, isRaining, clothesProtected,
                                temperature, humidity)
                   IN  /\ pc' = "sample"
                       /\ display' = updateDisplay("System ready", "Monitoring for rain",
                                         FALSE, rainValue, temperature, humidity)
                       /\ forceDataSend' = TRUE
                       /\ lastSuccessfulSend' = r.lss
                       /\ clock' = r.clock
                       /\ attempts' = 1
                       /\ lastSend' = [kind |-> "boot", forced |-> TRUE, outcome |-> r.outcome,
                                       contacted |-> r.contacted, record |-> r.record]
                       /\ lastOutcome' = IF r.outcome = "success" THEN "ok" ELSE "failed"
    /\ UNCHANGED <<rainValue, isRaining, clothesProtected, temperature, humidity,
                   lastDataSend, eeprom, currentMillis, cycle, sweeps,
                   lastSweep, refreshes>>

(***************************************************************************)
(* loop()                                                                  *)
(***************************************************************************)
\* analogRead and readDHTSensor
Sample(m, newTemperature, newHumidity) ==
    /\ pc = "sample"
    /\ cycle < MaxCycles
    /\ rainValue' = m
    /\ dhtRead' = [t |-> newTemperature, h |-> newHumidity, made |-> TRUE]
    /\ UNCHANGED idAtPowerOff
    /\ LET th == readDHTSensor(temperature, humidity, newTemperature, newHumidity)
       IN  /\ temperature' = th[1]
           /\ humidity' = th[2]
    /\ cycle' = cycle + 1
    /\ attempts' = 0
    /\ lastSend' = NoSend
    /\ refreshes' = 0
    /\ sweeps' = 0
    /\ pc' = "evaluate"
    /\ UNCHANGED <<clock, isRaining, clothesProtected, lastDataSend, lastSuccessfulSend,
                   forceDataSend, GOOGLE_SCRIPT_ID, eeprom, servo, display,
                   currentMillis, lastOutcome, lastSweep>>

\* The cover state machine: if (rainValue < rainThreshold) ... else ...
Evaluate ==
    /\ pc = "evaluate"
    /\ dhtRead' = NoRead
    /\ UNCHANGED idAtPowerOff
    /\ isRaining' = RainDetected(rainValue)
    /\ IF MoveToCoverDue(rainValue, clothesProtected)
       THEN LET sw == moveClothesToCoveredArea(servo)
            IN  /\ servo' = sw.last
                /\ clock' = U32Add(clock, sw.writes * SweepStepDelayMs)
                /\ sweeps' = sweeps + 1
                /\ lastSweep' = sw.last
                /\ clothesProtected' = TRUE
                /\ display' = updateDisplay("RAIN DETECTED!", "Clothes protected",
                                  TRUE, rainValue, temperature, humidity)
                /\ refreshes' = refreshes + 2
                /\ forceDataSend' = TRUE
       ELSE IF MoveOutsideDue(rainValue, clothesProtected)
       THEN LET sw == moveClothesToOutside(servo)
            IN  /\ servo' = sw.last
                /\ clock' = U32Add(clock, sw.writes * SweepStepDelayMs)
                /\ sweeps' = sweeps + 1
                /\ lastSweep' = sw.last
                /\ clothesProtected' = FALSE
                /\ display' = updateDisplay("No rain detected", "Clothes outside",
                                  FALSE, rainValue, temperature, humidity)
                /\ refreshes' = refreshes + 2
                /\ forceDataSend' = TRUE
       ELSE IF ~RainDetected(rainValue)
       THEN \* no rain, clothes outside: the display is refreshed
            /\ display' = updateDisplay("No rain detected", "Clothes outside",
                              FALSE, rainValue, temperature, humidity)
            /\ refreshes' = refreshes + 1
            /\ UNCHANGED <<servo, clock, sweeps, lastSweep, clothesProtected,
                           forceDataSend>>
       ELSE \* rain, clothes already protected: nothing is done
            UNCHANGED <<servo, clock, sweeps, lastSweep, clothesProtected,
                        display, refreshes, forceDataSend>>
    /\ pc' = "policy"
    /\ UNCHANGED <<rainValue, temperature, humidity, lastDataSend, lastSuccessfulSend,
                   GOOGLE_SCRIPT_ID, eeprom, currentMillis, cycle, attempts,
                   lastSend, lastOutcome>>

\* Step 1 of the send policy: the forced or periodic send.
Policy(env) ==
    /\ pc = "policy"
    /\ UNCHANGED <<dhtRead, idAtPowerOff>>
    /\ currentMillis' = clock
    /\ IF IntervalSendDue(forceDataSend, clock, lastDataSend)
       THEN LET r == sendDataToGoogleSheets(clock, env, GOOGLE_SCRIPT_ID,
                         lastSuccessfulSend, rainValue, isRaining, clothesProtected,
                         temperature, humidity)
            IN  /\ lastSuccessfulSend' = r.lss
                /\ clock' = r.clock
                /\ attempts' = attempts + 1
                /\ lastSend' = [kind |-> "interval", forced |-> forceDataSend,
                                outcome |-> r.outcome, contacted |-> r.contacted, record |-> r.record]
                /\ lastOutcome' = IF r.outcome = "success" THEN "ok" ELSE "failed"
                /\ lastDataSend' = clock
                /\ forceDataSend' = FALSE
       ELSE UNCHANGED <<lastSuccessfulSend, clock, attempts, lastSend, lastOutcome,
                        lastDataSend, forceDataSend>>
    /\ pc' = "retry"
    /\ UNCHANGED <<rainValue, isRaining, clothesProtected, temperature, humidity,
                   GOOGLE_SCRIPT_ID, eeprom, servo, display, cycle, sweeps,
                   lastSweep, refreshes>>

\* Step 2 of the send policy: the retry send.
Retry(env) ==
    /\ pc = "retry"
    /\ UNCHANGED <<dhtRead, idAtPowerOff>>
    /\ IF RetryDue(currentMillis, lastSuccessfulSend, lastDataSend)
       THEN LET r == sendDataToGoogleSheets(clock, env, GOOGLE_SCRIPT_ID,
                         lastSuccessfulSend, rainValue, isRaining, clothesProtected,
                         temperature, humidity)
            IN  /\ lastSuccessfulSend' = r.lss
                /\ clock' = r.clock
                /\ attempts' = attempts + 1
                /\ lastSend' = [kind |-> "retry", forced |-> FALSE,
                                outcome |-> r.outcome, contacted |-> r.contacted, record |-> r.record]
                /\ lastOutcome' = IF r.outcome = "success" THEN "ok" ELSE "failed"
                /\ lastDataSend' = currentMillis
       ELSE UNCHANGED <<lastSuccessfulSend, clock, attempts, lastSend, lastOutcome,
                        lastDataSend>>
    /\ pc' = "serial"
    /\ UNCHANGED <<rainValue, isRaining, clothesProtected, temperature, humidity,
                   forceDataSend, GOOGLE_SCRIPT_ID, eeprom, servo, display,
                   currentMillis, cycle, sweeps, lastSweep, refreshes>>

\* checkForNewScriptID
CheckForNewScriptID(input) ==
    /\ pc = "serial"
    /\ UNCHANGED <<dhtRead, idAtPowerOff>>
    /\ LET newScriptId == NewScriptId(input)
       IN  IF Len(newScriptId) > 0
           THEN /\ eeprom' = saveScriptIDToEEPROM(newScriptId)
                /\ GOOGLE_SCRIPT_ID' = newScriptId
           ELSE UNCHANGED <<eeprom, GOOGLE_SCRIPT_ID>>
    /\ pc' = "delay"
    /\ UNCHANGED <<clock, rainValue, isRaining, clothesProtected, temperature, humidity,
                   lastDataSend, lastSuccessfulSend, forceDataSend, servo, display,
                   currentMillis, cycle, attempts, lastSend, lastOutcome, sweeps,
                   lastSweep, refreshes>>

\* delay(5000), the end of the cycle: the local currentMillis goes out of
\* scope and the bookkeeping of the cycle is closed.
Delay ==
    /\ pc = "delay"
    /\ UNCHANGED <<dhtRead, idAtPowerOff>>
    /\ clock' = U32Add(clock, LoopDelayMs)
    /\ currentMillis' = U32(0)
    /\ attempts' = 0
    /\ lastSend' = NoSend
    /\ sweeps' = 0
    /\ refreshes' = 0
    /\ pc' = "sample"
    /\ UNCHANGED <<rainValue, isRaining, clothesProtected, temperature, humidity,
                   lastDataSend, lastSuccessfulSend, forceDataSend, GOOGLE_SCRIPT_ID,
                   eeprom, servo, display, cycle, lastOutcome, lastSweep>>

\* Power is cycled between two cycles (or while halted): RAM is initialised
\* again, the EEPROM keeps its content.
Restart ==
    /\ pc \in {"sample", "halted"}
    /\ idAtPowerOff' = GOOGLE_SCRIPT_ID
    /\ UNCHANGED dhtRead
    /\ pc' = "boot"
    /\ clock' = U32(0)
    /\ rainValue' = 0
    /\ isRaining' = FALSE
    /\ clothesProtected' = FALSE
    /\ temperature' = 0
    /\ humidity' = 0
    /\ lastDataSend' = U32(0)
    /\ lastSuccessfulSend' = U32(0)
    /\ forceDataSend' = FALSE
    /\ GOOGLE_SCRIPT_ID' = <<>>
    /\ servo' = -1
    /\ display' = NoDisplay
    /\ currentMillis' = U32(0)
    /\ cycle' = 0
    /\ attempts' = 0
    /\ lastSend' = NoSend
    /\ lastOutcome' = "none"
    /\ sweeps' = 0
    /\ lastSweep' = -1
    /\ refreshes' = 0
    /\ UNCHANGED eeprom

Next ==
    \/ \E displayOk \in BOOLEAN, wifiTries \in BootWiFiAttempts, env \in SendEnvs :
          Setup(displayOk, wifiTries, env)
    \/ \E m \in MoistureReadings, nt \in TemperatureReadings, nh \in HumidityReadings :
          Sample(m, nt, nh)
    \/ Evaluate
    \/ \E env \in SendEnvs : Policy(env)
    \/ \E env \in SendEnvs : Retry(env)
    \/ \E input \in SerialInputs : CheckForNewScriptID(input)
    \/ Delay
    \/ Restart

Spec == Init /\ [][Next]_vars

\* The program run on a dry line with a changing script id: the serial
\* port delivers short and long ids, power is cycled between cycles.
IdNext ==
    \/ \E displayOk \in BOOLEAN, wifiTries \in BootWiFiAttempts, env \in IdSendEnvs :
          Setup(displayOk, wifiTries, env)
    \/ \E m \in {rainThreshold}, nt \in {31}, nh \in {64} : Sample(m, nt, nh)
    \/ Evaluate
    \/ \E env \in IdSendEnvs : Policy(env)
    \/ \E env \in IdSendEnvs : Retry(env)
    \/ \E input \in IdSerialInputs : CheckForNewScriptID(input)
    \/ Delay
    \/ Restart

IdSpec == Init /\ [][IdNext]_vars

\* The steady state of the program on a quiet serial port and a working
\* DHT11, in every send environment: setup() once, then loop() for ever,
\* each statement being executed once its turn has come.
LoopNext ==
    \/ \E wifiTries \in BootWiFiAttempts, env \in SendEnvs : Setup(TRUE, wifiTries, env)
    \/ \E m \in MoistureReadings, nt \in {31}, nh \in {64} : Sample(m, nt, nh)
    \/ Evaluate
    \/ \E env \in SendEnvs : Policy(env)
    \/ \E env \in SendEnvs : Retry(env)
    \/ CheckForNewScriptID(<<>>)
    \/ CheckForNewScriptID(SetScriptIdPrefix \o IdShort)
    \/ Delay

LoopSpec == Init /\ [][LoopNext]_vars /\ WF_vars(LoopNext)

\* The longest a call of sendDataToGoogleSheets from loop() may take: the
\* connection attempt, the response wait and its last poll.
SendBudgetMs ==
    (CHOOSE c \in ConnectDurations : \A x \in ConnectDurations : x <= c)
        + ResponseTimeoutMs + ResponsePollMs

\* The program late in a run, shortly before millis() wraps.  The start is
\* the start of a cycle as it is reached after 53,400 ms in Spec (the last
\* success 25,010 ms ago, a failed retry 10,000 ms ago, clothes outside,
\* script id abc123), moved in time to a lastDataSend of 2^32 - 60000,
\* 2^32 - 30000 or 2^32 - 12000.
WrapStarts == { U32Sub(U32(0), U32(d)) : d \in {60000, 30000, 12000} }

WrapInit ==
    /\ pc = "sample"
    /\ lastDataSend \in WrapStarts
    /\ lastSuccessfulSend = U32Sub(lastDataSend, U32(resendTimeout + ResponsePollMs))
    /\ clock = U32Add(lastDataSend, 2 * LoopDelayMs)
    /\ rainValue = rainThreshold
    /\ isRaining = FALSE
    /\ clothesProtected = FALSE
    /\ temperature = 31
    /\ humidity = 64
    /\ forceDataSend = FALSE
    /\ GOOGLE_SCRIPT_ID = IdShort
    /\ eeprom = saveScriptIDToEEPROM(IdShort)
    /\ servo = outsidePosition
    /\ display = updateDisplay("No rain detected", "Clothes outside", FALSE,
                               rainThreshold, 31, 64)
    /\ currentMillis = U32(0)
    /\ cycle = 0
    /\ attempts = 0
    /\ lastSend = NoSend
    /\ lastOutcome = "failed"
    /\ sweeps = 0
    /\ lastSweep = outsidePosition
    /\ refreshes = 0
    /\ dhtRead = NoRead
    /\ idAtPowerOff = <<>>

WrapNext ==
    \/ \E m \in MoistureReadings, nt \in {31}, nh \in {64} : Sample(m, nt, nh)
    \/ Evaluate
    \/ \E env \in SendEnvs : Policy(env)
    \/ \E env \in SendEnvs : Retry(env)
    \/ CheckForNewScriptID(<<>>)
    \/ Delay

WrapSpec == WrapInit /\ [][WrapNext]_vars

\* The milliseconds from 2^32 - 2^16 to the time at which millis() was x,
\* for a time within the 2^32 - 2^16 ms that follow: not reduced modulo 2^32.
SinceWrapOrigin(x) == IF x.hi = Half - 1 THEN x.lo ELSE Half + x.hi * Half + x.lo

(***************************************************************************)
(* Properties.                                                             *)
(*                                                                         *)
(* A step "attempts a send" when it calls sendDataToGoogleSheets, that is  *)
(* when attempts' = attempts + 1.  PolicyAttempt is such a step of the     *)
(* send policy of loop(): step 1 at pc = "policy", the retry at            *)
(* pc = "retry".  In both, currentMillis' is the cycle's timestamp now and *)
(* the unprimed lastDataSend and lastSuccessfulSend are the values before  *)
(* the step.                                                               *)
(***************************************************************************)
SendAttempt == attempts' = attempts + 1
PolicyAttempt == (pc = "policy" \/ pc = "retry") /\ SendAttempt
FailedOutcomes == {"wifi_down", "no_id", "refused", "no_marker", "timeout"}

\* C1: after the state machine evaluation of a cycle the cover state is
\* Covered exactly when that cycle's moisture reading is below
\* rainThreshold, whatever it was before.
C1_CoverFollowsReading ==
    pc = "policy" => (clothesProtected <=> rainValue < rainThreshold)

\* A reading exactly at the threshold has moved covered clothes outside.
C1_Witness ==
    /\ pc = "policy"
    /\ rainValue = rainThreshold
    /\ ~clothesProtected
    /\ sweeps = 1

\* C2: an actuation is invoked in a cycle exactly when the target state of
\* the reading differs from the current cover state; an actuation goes the
\* other way than the one before it (the first one goes to the covered
\* position); a cycle without actuation leaves servo and cover state alone.
C2_ActuationOnlyOnChange ==
    [][pc = "evaluate" =>
         /\ (sweeps' = sweeps + 1) <=> ((rainValue < rainThreshold) # clothesProtected)
         /\ sweeps' \in {sweeps, sweeps + 1}
         /\ sweeps' = sweeps + 1 =>
               /\ lastSweep' # lastSweep
               /\ lastSweep' = (IF lastSweep = coveredPosition
                                THEN outsidePosition ELSE coveredPosition)
         /\ sweeps' = sweeps => UNCHANGED <<servo, lastSweep, clothesProtected>>]_vars

\* Rain goes on in a later cycle: the clothes stay covered, no actuation.
C2_Witness ==
    /\ pc = "policy"
    /\ cycle >= 3
    /\ rainValue < rainThreshold
    /\ clothesProtected
    /\ sweeps = 0
    /\ lastSweep = coveredPosition

\* C3: at the end of boot and between two cycles the cover state is Covered
\* exactly when the last completed sweep ended at the covered position;
\* before the first sweep the state is Outside and the last position
\* written to the servo is the outside position.
C3_CoverStateMatchesServo ==
    pc = "sample" =>
        /\ clothesProtected <=> lastSweep = coveredPosition
        /\ lastSweep = -1 => (~clothesProtected /\ servo = outsidePosition)
        /\ lastSweep # -1 => servo = lastSweep

\* Between two cycles, the clothes are covered after a sweep.
C3_Witness ==
    /\ pc = "sample"
    /\ clothesProtected
    /\ servo = coveredPosition

\* C4 as stated: with forceSend false the send policy attempts no send
\* before sendInterval has elapsed since lastSendAt.
C4_NoSendBeforeInterval ==
    [][(PolicyAttempt /\ ~forceDataSend) =>
          U32Ge(U32Sub(currentMillis', lastDataSend), dataSendInterval)]_vars

\* C4 amended: with forceSend false, step 1 attempts no send before
\* sendInterval has elapsed since lastSendAt; the retry step attempts one
\* only when more than retryTimeout has elapsed since lastSendAt and since
\* lastSuccessAt.
C4_NoSendBeforeIntervalOrRetry ==
    [][(PolicyAttempt /\ ~forceDataSend) =>
          \/ /\ pc = "policy"
             /\ U32Ge(U32Sub(currentMillis', lastDataSend), dataSendInterval)
          \/ /\ pc = "retry"
             /\ U32Gt(U32Sub(currentMillis', lastDataSend), resendTimeout)
             /\ U32Gt(U32Sub(currentMillis', lastSuccessfulSend), resendTimeout)]_vars

\* Step 1 has sent without being forced.
C4_Witness ==
    /\ pc = "retry"
    /\ lastSend.kind = "interval"
    /\ ~lastSend.forced

\* C5: forceSend is true at the end of boot; a policy evaluation that finds
\* forceSend true attempts a send, whatever time has elapsed, and leaves
\* forceSend false.
C5_ForcedSendIsSent ==
    /\ [](pc = "sample" /\ cycle = 0 => forceDataSend)
    /\ [][(pc = "policy" /\ forceDataSend) => (SendAttempt /\ ~forceDataSend')]_vars

\* The first policy evaluation after boot has sent, sendInterval not elapsed.
C5_Witness ==
    /\ pc = "retry"
    /\ cycle = 1
    /\ attempts = 1
    /\ lastSend.forced
    /\ ~U32Ge(U32Sub(currentMillis, U32(0)), dataSendInterval)

\* C6: a send attempt that fails, for whichever reason, leaves
\* lastSuccessAt as it was.
C6_FailedSendKeepsLastSuccess ==
    [][(SendAttempt /\ lastSend'.outcome \in FailedOutcomes) =>
          lastSuccessfulSend' = lastSuccessfulSend]_vars

\* A send has timed out after an earlier send had succeeded.
C6_Witness ==
    /\ lastSend.outcome = "timeout"
    /\ lastSuccessfulSend # U32(0)

\* C7 as stated: after a successful send of the policy lastSuccessAt is the
\* cycle's now.
C7_SuccessStampIsNow ==
    [][(PolicyAttempt /\ lastSend'.outcome = "success") =>
          lastSuccessfulSend' = currentMillis']_vars

\* C7 amended: after a successful send of the policy lastSuccessAt is a
\* clock value read during the send: not before the cycle's now, which is
\* what lastSendAt is set to, and not after the return of the send.
C7_SuccessStampWithinSend ==
    [][(PolicyAttempt /\ lastSend'.outcome = "success") =>
          /\ lastDataSend' = currentMillis'
          /\ U32Le(U32Sub(lastSuccessfulSend', currentMillis'),
                   U32Sub(clock', currentMillis'))]_vars

\* A send of the policy has succeeded, stamped after the cycle's now.
C7_Witness ==
    /\ pc \in {"retry", "serial"}
    /\ lastSend.kind \in {"interval", "retry"}
    /\ lastSend.outcome = "success"
    /\ lastSuccessfulSend # currentMillis

\* C8: the retry send is attempted only if more than retryTimeout has
\* elapsed at the cycle's now since lastSuccessAt and since lastSendAt, as
\* they are after step 1.
C8_RetryOnlyAfterBothTimeouts ==
    [][(pc = "retry" /\ SendAttempt) =>
          /\ U32Gt(U32Sub(currentMillis, lastSuccessfulSend), resendTimeout)
          /\ U32Gt(U32Sub(currentMillis, lastDataSend), resendTimeout)]_vars

\* The retry send has been made.
C8_Witness ==
    /\ pc = "serial"
    /\ lastSend.kind = "retry"

\* While no script id is set a send attempt does not contact the server.
NoIdNoContact ==
    (SendAttempt /\ GOOGLE_SCRIPT_ID' = <<>>) =>
        (~lastSend'.contacted /\ lastSend'.outcome \in {"no_id", "wifi_down"})

\* C9 as stated: while no script id is set a send attempt does not contact
\* the server, and with forceSend false an attempt comes no sooner than
\* sendInterval after the attempt before it.
C9_NoIdNormalCadence ==
    [][/\ NoIdNoContact
       /\ (PolicyAttempt /\ ~forceDataSend /\ GOOGLE_SCRIPT_ID = <<>>) =>
             U32Ge(U32Sub(currentMillis', lastDataSend), dataSendInterval)]_vars

\* C9 amended: while no script id is set a send attempt does not contact
\* the server, and with forceSend false an attempt comes more than
\* retryTimeout after the attempt before it.
C9_NoIdRetryCadence ==
    [][/\ NoIdNoContact
       /\ (PolicyAttempt /\ ~forceDataSend /\ GOOGLE_SCRIPT_ID = <<>>) =>
             U32Gt(U32Sub(currentMillis', lastDataSend), resendTimeout)]_vars

\* A retry send has been skipped for want of a script id.
C9_Witness ==
    /\ pc = "serial"
    /\ lastSend.kind = "retry"
    /\ lastSend.outcome = "no_id"
    /\ GOOGLE_SCRIPT_ID = <<>>

\* C10: whatever the sink does, when the policy of a cycle has been
\* evaluated the last send attempt is less than sendInterval before the
\* cycle's now: a cycle with now - lastSendAt >= sendInterval attempts a
\* send.
C10_SendsGoOn ==
    /\ [](pc = "serial" =>
             ~U32Ge(U32Sub(currentMillis, lastDataSend), dataSendInterval))
    /\ [][(pc = "policy" /\ U32Ge(U32Sub(clock, lastDataSend), dataSendInterval)) =>
             SendAttempt]_vars

\* No send has ever succeeded, and another attempt has just failed.
C10_Witness ==
    /\ pc = "serial"
    /\ cycle >= 2
    /\ lastSuccessfulSend = U32(0)
    /\ attempts = 1
    /\ lastSend.outcome \in FailedOutcomes

\* C11: in every cycle, when the state machine has been evaluated, the
\* display has been refreshed at least once in that cycle and shows the
\* cycle's rain flag, moisture, temperature and humidity.
C11_DisplayRefreshedEveryCycle ==
    pc = "policy" =>
        /\ refreshes >= 1
        /\ display.rain = isRaining
        /\ display.sensor = rainValue
        /\ display.t = temperature
        /\ display.h = humidity

\* C12: a climate read with an invalid temperature or humidity leaves both
\* cached values as they were, a read with two valid readings caches both,
\* and no other step of the loop changes the cached values.
C12_InvalidReadKeepsCache ==
    [][/\ (pc = "sample" /\ pc' = "evaluate") =>
             IF dhtRead'.t = NaN \/ dhtRead'.h = NaN
             THEN temperature' = temperature /\ humidity' = humidity
             ELSE temperature' = dhtRead'.t /\ humidity' = dhtRead'.h
       /\ (pc # "sample" /\ pc' # "boot") =>
             (temperature' = temperature /\ humidity' = humidity)]_vars

\* A read with a valid temperature and an invalid humidity has been made
\* after an earlier read had cached 31 and 64, and a read with no valid
\* reading has been made before any value was cached.
C12_Witness ==
    /\ pc = "evaluate"
    /\ dhtRead.made
    /\ dhtRead.h = NaN
    /\ \/ dhtRead.t # NaN /\ temperature = 0 /\ humidity = 0
       \/ dhtRead.t = NaN /\ temperature = 31 /\ humidity = 64

\* C13: every request built by a send carries the script id in use, and
\* the script id loaded by setup() after a restart is the one that was in
\* use when power was cycled, whatever the length of the id set by
\* SET_SCRIPT_ID.
C13_ScriptIdSurvivesRestart ==
    /\ [][((pc = "boot" \/ SendAttempt) /\ lastSend'.contacted) =>
             lastSend'.record.script_id = GOOGLE_SCRIPT_ID']_vars
    /\ [][pc = "boot" => GOOGLE_SCRIPT_ID' = idAtPowerOff]_vars

\* C14: every send attempt of loop() ends within the connection time plus
\* the response timeout, in every send environment, and every cycle that
\* has been started reaches its end: the program comes back to the start
\* of a cycle.
C14_SendsAndCyclesEnd ==
    /\ [][PolicyAttempt =>
             /\ U32Le(U32Sub(clock', clock), U32(SendBudgetMs))
             /\ lastSend'.outcome \in FailedOutcomes \cup {"success"}]_vars
    /\ (pc \in {"evaluate", "policy", "retry", "serial", "delay"}) ~> (pc = "sample")

\* A send has met a server that stays connected without ever sending the
\* success marker and has been abandoned at the timeout, WiFi was down
\* with the reconnection failing, or the connection was refused; later
\* cycles have started nevertheless.
C14_Witness ==
    /\ pc = "serial"
    /\ cycle >= 3
    /\ lastSend.outcome = "timeout"
    /\ U32Ge(U32Sub(clock, currentMillis), ResponseTimeoutMs)
    /\ lastSuccessfulSend = U32(0)

\* C15: the retry send of a cycle is made only when the most recent send
\* attempt was not successful.
C15_RetryOnlyAfterFailure ==
    [][(pc = "retry" /\ SendAttempt) => lastOutcome # "ok"]_vars

\* C16: in a cycle of loop() at most one send attempt is made: when step 1
\* has sent, the retry of the same cycle does not, also when the send of
\* step 1 has succeeded and lastSuccessfulSend is later than the cycle's
\* currentMillis.
C16_OneSendPerCycle ==
    /\ [](pc \in {"evaluate", "policy", "retry", "serial", "delay"} => attempts <= 1)
    /\ [][(pc = "retry" /\ attempts = 1) => ~SendAttempt]_vars

\* Step 1 has sent with success, lastSuccessfulSend is later than
\* currentMillis, and the retry step of the cycle has been passed.
C16_Witness ==
    /\ pc = "serial"
    /\ attempts = 1
    /\ lastSend.kind = "interval"
    /\ lastSend.outcome = "success"
    /\ ~U32Le(lastSuccessfulSend, currentMillis)
    /\ lastDataSend = currentMillis

\* C17: when the cover state has changed in a cycle (a sweep has been made
\* and has ended at the position of the new state), step 1 of the same
\* cycle attempts a send, and the record this send builds carries the new
\* cover state.
C17_TransitionIsReported ==
    [][(pc = "policy" /\ sweeps = 1) =>
          /\ servo = lastSweep
          /\ servo = (IF clothesProtected THEN coveredPosition ELSE outsidePosition)
          /\ SendAttempt
          /\ lastSend'.kind = "interval"
          /\ lastSend'.contacted =>
                lastSend'.record.clothes_status =
                    (IF clothesProtected THEN "In%20Cover" ELSE "Drying")]_vars

\* The clothes have been moved to cover in this cycle and the send of the
\* cycle has built a record saying so; likewise for the way back.
C17_Witness ==
    /\ pc = "retry"
    /\ sweeps = 1
    /\ attempts = 1
    /\ lastSend.contacted
    /\ lastSend.record.clothes_status = (IF clothesProtected THEN "In%20Cover" ELSE "Drying")
    /\ cycle >= 2

\* C18: in every record built by a send attempt, the boot send included,
\* is_raining is "Yes" exactly when rain_value is below rainThreshold.
C18_RainFlagMatchesMoisture ==
    lastSend.contacted =>
        (lastSend.record.is_raining = "Yes" <=> lastSend.record.rain_value < rainThreshold)

\* C19: in every record built by a send attempt (boot, forced or interval,
\* retry) is_raining is "Yes" exactly when clothes_status is "In Cover"
\* (sent as In%20Cover).
C19_RainFlagMatchesCover ==
    lastSend.contacted =>
        (lastSend.record.is_raining = "Yes" <=> lastSend.record.clothes_status = "In%20Cover")

\* A retry send has built a record during rain, the clothes having been
\* under cover since an earlier cycle.
C19_Witness ==
    /\ pc = "serial"
    /\ lastSend.kind = "retry"
    /\ lastSend.contacted
    /\ sweeps = 0
    /\ lastSend.record.is_raining = "Yes"
    /\ lastSend.record.clothes_status = "In%20Cover"

\* C20: across the wrap of millis(), with forceDataSend false, step 1
\* sends exactly when the real time elapsed since lastDataSend (not
\* reduced modulo 2^32) is at least dataSendInterval: the wrap neither
\* suppresses a due send nor triggers an early one.
C20_IntervalAcrossWrap ==
    [][(pc = "policy" /\ ~forceDataSend) =>
          (SendAttempt <=>
              SinceWrapOrigin(clock) - SinceWrapOrigin(lastDataSend) >= dataSendInterval)]_vars

\* An interval send that was not forced has been made after the wrap, 30 s
\* after a send made before the wrap whose success was stamped 10 s later.
C20_Witness ==
    /\ pc = "retry"
    /\ lastSend.kind = "interval"
    /\ ~lastSend.forced
    /\ lastSend.outcome \in FailedOutcomes
    /\ lastDataSend.hi = 0
    /\ lastSuccessfulSend.hi = Half - 1
    /\ U32Sub(lastDataSend, lastSuccessfulSend) = U32(dataSendInterval - ResponseTimeoutMs)

====
